---- MODULE Spec2Model ----
(***************************************************************************)
(* Model of bin/vim-erlang-tags.py: the tag extractor (scan_tags and the   *)
(* add_*_tag functions), the tag table (a Python dict filled through       *)
(* setdefault) and the serializer (tags_to_file / tag_to_str).             *)
(*                                                                         *)
(* Python strings are TLA+ strings; a Python tuple is a TLA+ tuple; the    *)
(* dict is the sequence of its (key, value) items in insertion order.      *)
(***************************************************************************)
EXTENDS Integers, Sequences, FiniteSets, TLC

\* ------------------------------------------------------------------------
\* Bounds of the model
\* ------------------------------------------------------------------------

\* Longest argument list handed to create_tags.
MaxFiles == 2

\* Largest total number of lines held by the files of one run.
MaxLines == 2

\* Longest free tail of a line in the single-line scanning runs.
MaxTail == 3

\* ------------------------------------------------------------------------
\* Characters and strings
\* ------------------------------------------------------------------------

\* The character s[i], the empty string outside the string.
At(s, i) == IF i \in 1..Len(s) THEN SubSeq(s, i, i) ELSE ""

Lower == {"a","b","c","d","e","f","g","h","i","j","k","l","m",
          "n","o","p","q","r","s","t","u","v","w","x","y","z"}

Upper == {"A","B","C","D","E","F","G","H","I","J","K","L","M",
          "N","O","P","Q","R","S","T","U","V","W","X","Y","Z"}

Digit == {"0","1","2","3","4","5","6","7","8","9"}

\* A letter outside ASCII, such as U+00E9: alphanumeric for \b, outside
\* every [..] class the two patterns spell out.  TLC stores the strings of
\* a state one byte per character, so the letter is written "~" here, a
\* character that occurs nowhere else in the model and that, like the
\* letter, sorts behind every other character.
NonAsciiLetter == {"~"}

\* [a-z]
LowerClass == Lower

\* [a-zA-Z0-9_@]
IdClass == Lower \cup Upper \cup Digit \cup {"_", "@"}

\* \s
SpaceClass == {" ", "\t", "\n", "\r", "\f"}

\* \w, which decides \b: the alphanumerics of the str pattern and "_".
WordClass == Lower \cup Upper \cup Digit \cup {"_"} \cup NonAsciiLetter

\* The characters of the model in code point order (str comparison).
CodePointOrder ==
    << "\t", "\n", "\f", "\r", " ", "!", "\"", "(", ")", ",", "-", ".", "/",
       "0","1","2","3","4","5","6","7","8","9", ":", ";", "=", ">", "@",
       "A","B","C","D","E","F","G","H","I","J","K","L","M",
       "N","O","P","Q","R","S","T","U","V","W","X","Y","Z",
       "\\", "^", "_",
       "a","b","c","d","e","f","g","h","i","j","k","l","m",
       "n","o","p","q","r","s","t","u","v","w","x","y","z",
       "{", "}", "~" >>

Chars == { CodePointOrder[i] : i \in 1..Len(CodePointOrder) }

ord == [ c \in Chars |-> CHOOSE i \in 1..Len(CodePointOrder) : CodePointOrder[i] = c ]

\* s < t on Python strings: lexicographic by code point, a proper prefix
\* is smaller.
RECURSIVE StrLess(_, _)
StrLess(s, t) ==
    IF Len(t) = 0 THEN FALSE
    ELSE IF Len(s) = 0 THEN TRUE
    ELSE IF At(s, 1) = At(t, 1) THEN StrLess(Tail(s), Tail(t))
    ELSE ord[At(s, 1)] < ord[At(t, 1)]

\* a < b on Python tuples of strings.
RECURSIVE TupleLess(_, _)
TupleLess(a, b) ==
    IF Len(b) = 0 THEN FALSE
    ELSE IF Len(a) = 0 THEN TRUE
    ELSE IF a[1] = b[1] THEN TupleLess(Tail(a), Tail(b))
    ELSE StrLess(a[1], b[1])

\* ------------------------------------------------------------------------
\* os.path
\* ------------------------------------------------------------------------

\* Index of the last occurrence of character c in s[1..i], 0 when absent.
RECURSIVE rfind(_, _, _)
rfind(s, c, i) ==
    IF i = 0 THEN 0
    ELSE IF At(s, i) = c THEN i
    ELSE rfind(s, c, i - 1)

basename(p) == SubSeq(p, rfind(p, "/", Len(p)) + 1, Len(p))

\* os.path.splitext: the extension starts at the last dot, unless only
\* dots precede it.
splitext(p) ==
    LET sepIndex == rfind(p, "/", Len(p))
        dotIndex == rfind(p, ".", Len(p))
    IN  IF /\ dotIndex > sepIndex
           /\ \E k \in (sepIndex + 1)..(dotIndex - 1) : At(p, k) # "."
        THEN << SubSeq(p, 1, dotIndex - 1), SubSeq(p, dotIndex, Len(p)) >>
        ELSE << p, "" >>

\* ------------------------------------------------------------------------
\* The two patterns, matched the way the backtracking matcher does: every
\* greedy repeat takes the longest run first and gives characters back one
\* at a time while the rest of the pattern fails.
\* ------------------------------------------------------------------------

None == << >>

\* Length of the longest run of characters of class C starting at s[i].
RECURSIVE RunLen(_, _, _)
RunLen(s, i, C) ==
    IF i > Len(s) \/ At(s, i) \notin C THEN 0
    ELSE 1 + RunLen(s, i + 1, C)

\* \b after the first p characters of s.
IsBoundary(s, p) ==
    LET before == p >= 1 /\ At(s, p) \in WordClass
        after  == p + 1 <= Len(s) /\ At(s, p + 1) \in WordClass
    IN  before # after

\* \s*\( at s[i], with m whitespace characters, then fewer.
RECURSIVE MatchSpaceParen(_, _, _)
MatchSpaceParen(s, i, m) ==
    IF At(s, i + m) = "(" THEN i + m + 1
    ELSE IF m = 0 THEN 0
    ELSE MatchSpaceParen(s, i, m - 1)

\* ^(First IdClass*)\s*\( with a group 1 of n characters, then fewer.
RECURSIVE MatchFunc(_, _)
MatchFunc(s, n) ==
    IF n = 0 THEN None
    ELSE IF MatchSpaceParen(s, n + 1, RunLen(s, n + 1, SpaceClass)) # 0
         THEN << SubSeq(s, 1, n) >>
         ELSE MatchFunc(s, n - 1)

FuncPattern(s, First) ==
    IF Len(s) = 0 \/ At(s, 1) \notin First THEN None
    ELSE MatchFunc(s, 1 + RunLen(s, 2, IdClass))

func_re_any_initial(line) == FuncPattern(line, Lower \cup Upper)

\* re.match(func_re, line): None, or the tuple of its groups.
func_re(line) == FuncPattern(line, LowerClass)

\* ([a-zA-Z0-9_@]*)\b at s[i], with a group of n characters, then fewer.
RECURSIVE MatchName(_, _, _)
MatchName(s, i, n) ==
    IF IsBoundary(s, i + n - 1) THEN << SubSeq(s, i, i + n - 1) >>
    ELSE IF n = 0 THEN None
    ELSE MatchName(s, i, n - 1)

\* \s*([a-zA-Z0-9_@]*)\b at s[i], with m whitespace characters, then fewer.
RECURSIVE MatchSpaceName(_, _, _)
MatchSpaceName(s, i, m) ==
    LET r == MatchName(s, i + m, RunLen(s, i + m, IdClass))
    IN  IF r # None THEN r
        ELSE IF m = 0 THEN None
        ELSE MatchSpaceName(s, i, m - 1)

\* \s*\(\s*([a-zA-Z0-9_@]*)\b at s[i].
MatchAfterAttribute(s, i) ==
    LET j == MatchSpaceParen(s, i, RunLen(s, i, SpaceClass))
    IN  IF j = 0 THEN None
        ELSE MatchSpaceName(s, j, RunLen(s, j, SpaceClass))

\* (record|define)... at s[i]: the first alternative, then the second.
MatchAttribute(s, i) ==
    LET word == SubSeq(s, i, i + 5)
        rest == MatchAfterAttribute(s, i + 6)
    IN  IF i + 5 <= Len(s) /\ word \in {"record", "define"} /\ rest # None
        THEN << word >> \o rest
        ELSE None

\* \s*(record|define)... at s[i], with m whitespace characters, then fewer.
RECURSIVE MatchSpaceAttribute(_, _, _)
MatchSpaceAttribute(s, i, m) ==
    LET r == MatchAttribute(s, i + m)
    IN  IF r # None THEN r
        ELSE IF m = 0 THEN None
        ELSE MatchSpaceAttribute(s, i, m - 1)

\* re.match(recmac_re, line): None, or the tuple of its groups.
recmac_re(line) ==
    IF Len(line) = 0 \/ At(line, 1) # "-" THEN None
    ELSE MatchSpaceAttribute(line, 2, RunLen(line, 2, SpaceClass))

\* ------------------------------------------------------------------------
\* The tag table: {(TagName, FilePath, Kind, Scope): TagAddress}.  A table
\* value t carries the dict (t.tags, the items in insertion order) and the
\* add_tag calls made on it (t.log).
\* ------------------------------------------------------------------------

Range(s) == { s[i] : i \in 1..Len(s) }

Keys(d) == { d[i][1] : i \in 1..Len(d) }

setdefault_append(d, key, value) == Append(d, << key, value >>)

setdefault_by_name(d, key, value) ==
    IF \E k \in Keys(d) : k[1] = key[1] THEN d
    ELSE Append(d, << key, value >>)

\* d.setdefault(key, value)
setdefault(d, key, value) ==
    IF key \in Keys(d) THEN d
    ELSE Append(d, << key, value >>)

add_tag(t, tag, file, tagaddress, scope, kind) ==
    LET key == << tag, file, kind, scope >>
    IN  [ tags |-> setdefault(t.tags, key, tagaddress),
          log  |-> Append(t.log, << key, tagaddress >>) ]

add_file_tag_for_hrl_too(t, file, base, name_and_ext) ==
    LET t1 == add_tag(t, base, file, "1", "global", "F")
    IN  IF name_and_ext[2] \in {".erl", ".hrl"}
        THEN add_tag(t1, name_and_ext[1], file, "1", "global", "M")
        ELSE t1

add_file_tag(t, file, base, name_and_ext) ==
    LET t1 == add_tag(t, base, file, "1", "global", "F")
    IN  IF name_and_ext[2] = ".erl"
        THEN add_tag(t1, name_and_ext[1], file, "1", "global", "M")
        ELSE t1

add_func_tags(t, file, name_and_ext, func_name) ==
    LET t1 == add_tag(t, name_and_ext[1] \o ":" \o func_name, file,
                      "/^" \o func_name \o "\\>/", "global", "f")
    IN  add_tag(t1, func_name, file, "/^" \o func_name \o "\\>/", "local", "f")

RecmacKind_always_r(attribute) == "r"

\* The attribute is always one of the two alternatives of recmac_re.
RecmacKind(attribute) == IF attribute = "record" THEN "r" ELSE "d"

RecmacScope_not_erl(name_and_ext) ==
    IF name_and_ext[2] # ".erl" THEN "global" ELSE "local"

RecmacScope(name_and_ext) ==
    IF name_and_ext[2] = ".hrl" THEN "global" ELSE "local"

RecmacAddress_record_only(attribute, name) ==
    "/^-\\s\\*record\\s\\*(\\s\\*" \o name \o "\\>/"

RecmacAddress(attribute, name) ==
    "/^-\\s\\*" \o attribute \o "\\s\\*(\\s\\*" \o name \o "\\>/"

add_recmac_tag(t, file, name_and_ext, attribute, name) ==
    add_tag(t, name, file, RecmacAddress(attribute, name),
            RecmacScope(name_and_ext), RecmacKind(attribute))

scan_tags(t, file, name_and_ext, line) ==
    LET func_match   == func_re(line)
        recmac_match == recmac_re(line)
    IN  IF func_match # None
        THEN add_func_tags(t, file, name_and_ext, func_match[1])
        ELSE IF recmac_match # None
        THEN add_recmac_tag(t, file, name_and_ext,
                            recmac_match[1], recmac_match[2])
        ELSE t

\* The for loop of add_tags_from_file over the lines of the file.
RECURSIVE scan_lines(_, _, _, _)
scan_lines(t, file, name_and_ext, lines) ==
    IF lines = << >> THEN t
    ELSE scan_lines(scan_tags(t, file, name_and_ext, Head(lines)),
                    file, name_and_ext, Tail(lines))

add_tags_from_file(t, file, lines) ==
    LET base         == basename(file)
        name_and_ext == splitext(base)
    IN  scan_lines(add_file_tag(t, file, base, name_and_ext),
                   file, name_and_ext, lines)

\* create_tags on the file paths that reach add_tags_from_file, contents
\* being the lines fileinput reads from each path.
RECURSIVE create_tags_from(_, _, _)
create_tags_from(t, paths, contents) ==
    IF paths = << >> THEN t
    ELSE create_tags_from(add_tags_from_file(t, Head(paths), contents[Head(paths)]),
                          Tail(paths), contents)

create_tags(paths, contents) ==
    create_tags_from([ tags |-> << >>, log |-> << >> ], paths, contents)

\* ------------------------------------------------------------------------
\* Writing the tags file
\* ------------------------------------------------------------------------

header == "!_TAG_FILE_SORTED\t1\t/0=unsorted, 1=sorted/\n"

\* a < b on the (key, value) items of the dict.
ItemLess(a, b) ==
    IF a[1] = b[1] THEN StrLess(a[2], b[2]) ELSE TupleLess(a[1], b[1])

\* x placed behind the items of the sorted list s that are not larger.
RECURSIVE InsertSorted(_, _)
InsertSorted(x, s) ==
    IF s = << >> THEN << x >>
    ELSE IF ItemLess(x, Head(s)) THEN << x >> \o s
    ELSE << Head(s) >> \o InsertSorted(x, Tail(s))

RECURSIVE SortFrom(_, _)
SortFrom(items, acc) ==
    IF items = << >> THEN acc
    ELSE SortFrom(Tail(items), InsertSorted(Head(items), acc))

insertion_order(items) == items

\* sorted(tags.items())
sorted(items) == SortFrom(items, << >>)

tag_to_str_file_always(tag_entry) ==
    tag_entry[1][1] \o "\t" \o tag_entry[1][2] \o "\t" \o
    tag_entry[2] \o ";\"\t" \o tag_entry[1][3] \o "\tfile:" \o "\n"

tag_to_str(tag_entry) ==
    LET tag        == tag_entry[1][1]
        file       == tag_entry[1][2]
        kind       == tag_entry[1][3]
        scope      == tag_entry[1][4]
        tagaddress == tag_entry[2]
        scopestr   == IF scope = "global" THEN "" ELSE "\tfile:"
    IN  tag \o "\t" \o file \o "\t" \o tagaddress \o ";\"\t" \o
        kind \o scopestr \o "\n"

\* The writes of the loop of tags_to_file, one after the other.
RECURSIVE write_entries(_)
write_entries(entries) ==
    IF entries = << >> THEN ""
    ELSE tag_to_str(Head(entries)) \o write_entries(Tail(entries))

\* The content of the tags file after tags_to_file.
tags_to_file(d) == header \o write_entries(sorted(d))

\* ------------------------------------------------------------------------
\* The inputs of a run
\* ------------------------------------------------------------------------

\* File paths as add_tags_from_file receives them: a module in a directory,
\* a header with the same name stem, and a file whose name starts with its
\* only dot (no extension for splitext).
Paths == { "d/foo.erl", "foo.hrl", ".erl" }

\* Lines as fileinput yields them, terminator included.
MainLines == { "bar(X) -> X.\n",
               "-record(point, {x, y}).\n",
               "-define(point, 100).\n",
               "  Foo(X) ->\n" }

\* The lines of the single-line runs: a head, then every string of at most
\* MaxTail characters over TailChars, then the terminator or nothing (the
\* last line of a file may lack it).
Heads == { "", "-record", "-define", "-record(", "-define(",
           "- record", " -define(" }

TailChars == { "b", "M", "@", "~", " ", "(", ")" }

RECURSIVE StringsUpTo(_)
StringsUpTo(n) ==
    IF n = 0 THEN { "" }
    ELSE LET S == StringsUpTo(n - 1)
         IN  S \cup { s \o c : s \in S, c \in TailChars }

ScanLines == { h \o t \o e : h \in Heads, t \in StringsUpTo(MaxTail),
                             e \in { "", "\n" } }

\* The lines among content[i..] that belong to path p.
RECURSIVE LinesOf(_, _, _, _)
LinesOf(content, owner, p, i) ==
    IF i > Len(content) THEN << >>
    ELSE IF owner[i] = p
         THEN << content[i] >> \o LinesOf(content, owner, p, i + 1)
         ELSE LinesOf(content, owner, p, i + 1)

\* ------------------------------------------------------------------------
\* The run: main() calls create_tags(args.files), then tags_to_file.
\* ------------------------------------------------------------------------

VARIABLES
    files,      \* the file paths create_tags hands to add_tags_from_file
    fs,         \* the lines of every path (fixed during the run)
    fi,         \* number of paths taken from files so far
    li,         \* number of lines of the current file scanned so far
    pc,         \* "files": between files; "lines": in the line loop; "done"
    tags,       \* the dict built by create_tags
    emitted,    \* the add_tag calls of the last step
    calls,      \* every add_tag call of the run, in order
    out         \* the content of the tags file

vars == << files, fs, fi, li, pc, tags, emitted, calls, out >>

InitRest ==
    /\ fi = 0
    /\ li = 0
    /\ pc = "files"
    /\ tags = << >>
    /\ emitted = << >>
    /\ calls = << >>
    /\ out = ""

\* Any list of at most MaxFiles paths (a path may repeat); the listed files
\* hold at most MaxLines lines of MainLines between them.
Init ==
    /\ \E n \in 0..MaxFiles : files \in [1..n -> Paths]
    /\ \E k \in 0..MaxLines :
         \E content \in [1..k -> MainLines] :
           \E owner \in [1..k -> Range(files)] :
             fs = [ p \in Paths |-> LinesOf(content, owner, p, 1) ]
    /\ InitRest

\* One file holding one line of ScanLines.
ScanInit ==
    /\ \E p \in Paths : \E line \in ScanLines :
         /\ files = << p >>
         /\ fs = [ q \in Paths |-> IF q = p THEN << line >> ELSE << >> ]
    /\ InitRest

CurFile == files[fi]

CurNameAndExt == splitext(basename(CurFile))

\* add_tags_from_file up to its line loop: add_file_tag.
AddTagsFromFile ==
    /\ pc = "files"
    /\ fi < Len(files)
    /\ LET file == files[fi + 1]
           base == basename(file)
           t    == add_file_tag([ tags |-> tags, log |-> << >> ],
                                file, base, splitext(base))
       IN  /\ tags' = t.tags
           /\ emitted' = t.log
           /\ calls' = calls \o t.log
    /\ fi' = fi + 1
    /\ li' = 0
    /\ pc' = "lines"
    /\ UNCHANGED << files, fs, out >>

\* One turn of the line loop: scan_tags on the next line.
ScanTags ==
    /\ pc = "lines"
    /\ li < Len(fs[CurFile])
    /\ LET t == scan_tags([ tags |-> tags, log |-> << >> ], CurFile,
                          CurNameAndExt, fs[CurFile][li + 1])
       IN  /\ tags' = t.tags
           /\ emitted' = t.log
           /\ calls' = calls \o t.log
    /\ li' = li + 1
    /\ UNCHANGED << files, fs, fi, pc, out >>

\* The line loop ends; back in the loop of create_tags.
EndOfFile ==
    /\ pc = "lines"
    /\ li = Len(fs[CurFile])
    /\ pc' = "files"
    /\ emitted' = << >>
    /\ UNCHANGED << files, fs, fi, li, tags, calls, out >>

\* create_tags returns; tags_to_file writes the file.
TagsToFile ==
    /\ pc = "files"
    /\ fi = Len(files)
    /\ out' = tags_to_file(tags)
    /\ pc' = "done"
    /\ emitted' = << >>
    /\ UNCHANGED << files, fs, fi, li, tags, calls >>

Next ==
    \/ AddTagsFromFile
    \/ ScanTags
    \/ EndOfFile
    \/ TagsToFile

Spec == Init /\ [][Next]_vars

ScanSpec == ScanInit /\ [][Next]_vars

\* ------------------------------------------------------------------------
\* Properties
\* ------------------------------------------------------------------------

\* The last step was scan_tags on LastLine; emitted holds its add_tag calls.
Scanned == pc = "lines" /\ li >= 1

LastLine == fs[CurFile][li]

FileLists == UNION { [1..n -> Paths] : n \in 0..MaxFiles }

\* Ascending order of the (Name, FilePath, Kind, Scope) key, field by field.
KeyLess(a, b) ==
    \E i \in 1..4 : /\ \A j \in 1..(i - 1) : a[j] = b[j]
                    /\ StrLess(a[i], b[i])

\* The items of d, each at the position that is one more than the number
\* of items of smaller key.
InKeyOrder(d) ==
    LET smaller == [ e \in Range(d) |->
                       Cardinality({ x \in Range(d) : KeyLess(x[1], e[1]) }) ]
    IN  [ i \in 1..Len(d) |-> CHOOSE e \in Range(d) : smaller[e] = i - 1 ]

RECURSIVE Lines(_)
Lines(entries) ==
    IF entries = << >> THEN ""
    ELSE tag_to_str(Head(entries)) \o Lines(Tail(entries))

\* C1: the tags file is the fixed header line followed by exactly one line
\* per record of the table, the records taken in ascending order of their
\* (Name, FilePath, Kind, Scope) key; for the empty table it is the header
\* line alone.
C1_HeaderThenSortedLines ==
    pc = "done" =>
        /\ out = "!_TAG_FILE_SORTED\t1\t/0=unsorted, 1=sorted/\n"
                 \o Lines(InKeyOrder(tags))
        /\ tags = << >> => out = "!_TAG_FILE_SORTED\t1\t/0=unsorted, 1=sorted/\n"

\* A file was written from a table whose insertion order is not key order.
C1_Witness ==
    /\ pc = "done"
    /\ Len(tags) >= 3
    /\ \E i, j \in 1..Len(tags) : i < j /\ KeyLess(tags[j][1], tags[i][1])

\* C2: processing the same set of files in any other order, with any
\* repetition, builds a table with the same items, and the same tags file.
C2_OrderIndependent ==
    pc = "done" =>
        \A g \in FileLists :
            Range(g) = Range(files) =>
                LET t == create_tags(g, fs)
                IN  /\ Range(t.tags) = Range(tags)
                    /\ tags_to_file(t.tags) = out

\* Two different files, both with lines, were processed.
C2_Witness ==
    /\ pc = "done"
    /\ Len(files) >= 2
    /\ files[1] # files[2]
    /\ fs[files[1]] # << >>
    /\ fs[files[2]] # << >>

NoDuplicateKeys(d) ==
    \A i, j \in 1..Len(d) : d[i][1] = d[j][1] => i = j

\* C3: every step leaves at most one item per key in the table and keeps
\* every item already stored, every key passed to add_tag is in the table
\* afterwards, and a step whose add_tag calls all carry keys already in
\* the table leaves the table unchanged.
C3_FirstWriterWins ==
    [][ /\ NoDuplicateKeys(tags')
        /\ Len(tags') >= Len(tags)
        /\ \A i \in 1..Len(tags) : tags'[i] = tags[i]
        /\ \A c \in Range(emitted') : c[1] \in Keys(tags')
        /\ (\A c \in Range(emitted') : c[1] \in Keys(tags)) => tags' = tags
      ]_vars

\* add_tag was called more often than the table has items: some call
\* carried a key that was already present.
C3_Witness ==
    /\ emitted # << >>
    /\ Len(calls) > Len(tags)
    /\ \A c \in Range(emitted) :
         \E i \in 1..(Len(calls) - Len(emitted)) : calls[i][1] = c[1]

\* The address the claim writes for attribute A and name N.
C4_ClaimedAddress(A, N) == "/^-\\s*" \o A \o "\\s*(\\s*" \o N \o "\\>/"

\* C4 as stated: the record emitted for a line the record/macro pattern
\* matches has the address /^-\s*A\s*(\s*N\>/.
C4_AddressAsStated ==
    (Scanned /\ recmac_re(LastLine) # None /\ func_re(LastLine) = None) =>
        /\ Len(emitted) = 1
        /\ emitted[1][2] = C4_ClaimedAddress(recmac_re(LastLine)[1],
                                             recmac_re(LastLine)[2])

\* C4 amended: the record emitted for a line the record/macro pattern
\* matches with attribute A and captured name N has name N and the address
\* /^-\s\*A\s\*(\s\*N\>/, each wildcard written backslash, s, backslash, *.
C4_AddressEscapedStar ==
    (Scanned /\ recmac_re(LastLine) # None /\ func_re(LastLine) = None) =>
        LET A == recmac_re(LastLine)[1]
            N == recmac_re(LastLine)[2]
        IN  /\ Len(emitted) = 1
            /\ emitted[1][1][1] = N
            /\ emitted[1][2] = "/^-\\s\\*" \o A \o "\\s\\*(\\s\\*" \o N \o "\\>/"

\* A define with a non-empty name was scanned in the header file.
C4_Witness ==
    /\ Scanned
    /\ CurFile = "foo.hrl"
    /\ recmac_re(LastLine) # None
    /\ recmac_re(LastLine)[1] = "define"
    /\ recmac_re(LastLine)[2] = "MM"
    /\ Len(emitted) = 1

\* The identifiers F for which the line reads F, optional whitespace, "(",
\* F starting at column 0 with a lowercase letter and continuing in
\* [a-zA-Z0-9_@].
FuncNames(line) ==
    { SubSeq(line, 1, n) : n \in
        { n \in 1..Len(line) :
            /\ At(line, 1) \in Lower
            /\ \A i \in 2..n : At(line, i) \in IdClass
            /\ \E m \in 0..Len(line) :
                 /\ \A i \in (n + 1)..(n + m) : At(line, i) \in SpaceClass
                 /\ At(line, n + m + 1) = "(" } }

\* C5: scan_tags emits function tags exactly for the lines that start at
\* column 0 with a lowercase-initial identifier F, optional whitespace and
\* "("; it then emits exactly (S:F, P, f, Global) and (F, P, f, Local),
\* both with address /^F\>/, and nothing else.
C5_FunctionTags ==
    Scanned =>
        LET P  == CurFile
            S  == CurNameAndExt[1]
            FN == FuncNames(LastLine)
        IN  /\ FN = {} => \A c \in Range(emitted) : c[1][3] # "f"
            /\ \A F \in FN :
                 /\ Len(emitted) = 2
                 /\ Range(emitted) =
                      { << << S \o ":" \o F, P, "f", "global" >>, "/^" \o F \o "\\>/" >>,
                        << << F, P, "f", "local" >>, "/^" \o F \o "\\>/" >> }

\* A function line with whitespace before the parenthesis was scanned.
C5_Witness ==
    /\ Scanned
    /\ FuncNames(LastLine) # {}
    /\ Len(emitted) = 2
    /\ \E F \in FuncNames(LastLine) : At(LastLine, Len(F) + 1) = " "

\* C6: every file path in the table has its file tag with address 1, and
\* has its module tag with address 1 exactly when its extension is .erl.
C6_FileAndModuleTags ==
    \A P \in { e[1][2] : e \in Range(tags) } :
        LET base == basename(P)
        IN  /\ << << base, P, "F", "global" >>, "1" >> \in Range(tags)
            /\ << << splitext(base)[1], P, "M", "global" >>, "1" >> \in Range(tags)
                 <=> splitext(base)[2] = ".erl"

\* The table holds tags of a module and of a header.
C6_Witness ==
    /\ \E e \in Range(tags) : splitext(basename(e[1][2]))[2] = ".erl"
    /\ \E e \in Range(tags) : /\ splitext(basename(e[1][2]))[2] = ".hrl"
                              /\ e[1][3] \in { "f", "r", "d" }

\* C7: a line the record/macro pattern matches emits exactly one record,
\* of kind r for record and d for define, Global exactly in a .hrl file
\* and Local in every other file.
C7_RecmacKindAndScope ==
    (Scanned /\ recmac_re(LastLine) # None /\ func_re(LastLine) = None) =>
        /\ Len(emitted) = 1
        /\ recmac_re(LastLine)[1] = "record" => emitted[1][1][3] = "r"
        /\ recmac_re(LastLine)[1] = "define" => emitted[1][1][3] = "d"
        /\ emitted[1][1][3] \in { "r", "d" }
        /\ emitted[1][1][2] = CurFile
        /\ IF CurNameAndExt[2] = ".hrl"
           THEN emitted[1][1][4] = "global"
           ELSE emitted[1][1][4] = "local"

\* A record was scanned in a file that is neither a module nor a header.
C7_Witness ==
    /\ Scanned
    /\ recmac_re(LastLine) # None
    /\ recmac_re(LastLine)[1] = "record"
    /\ CurNameAndExt[2] \notin { ".erl", ".hrl" }
    /\ Len(emitted) = 1

\* The positions of the line terminators of s.
Terminators(s) == { i \in 1..Len(s) : At(s, i) = "\n" }

\* The lines of s that end in a terminator, each with its terminator.
SplitLines(s) ==
    LET T == Terminators(s)
        EndOf(k) == CHOOSE p \in T : Cardinality({ q \in T : q < p }) = k - 1
    IN  [ k \in 1..Cardinality(T) |->
            SubSeq(s, IF k = 1 THEN 1 ELSE EndOf(k - 1) + 1, EndOf(k)) ]

\* The line the claim gives for an item.
C8_ClaimedLine(e) ==
    e[1][1] \o "\t" \o e[1][2] \o "\t" \o e[2] \o ";\"" \o "\t" \o e[1][3]
    \o (IF e[1][4] = "local" THEN "\t" \o "file:" ELSE "") \o "\n"

\* C8: after the header, the tags file holds for every item of the table
\* the line Name TAB FilePath TAB Address ;" TAB Kind, with TAB file:
\* appended exactly for the Local items, and no other line.
C8_LineFormat ==
    pc = "done" =>
        LET ls == SplitLines(out)
        IN  /\ Len(ls) = Len(tags) + 1
            /\ Len(out) \in Terminators(out)
            /\ { ls[i] : i \in 2..Len(ls) } = { C8_ClaimedLine(e) : e \in Range(tags) }

\* A file was written from a table with Global and Local items.
C8_Witness ==
    /\ pc = "done"
    /\ \E e \in Range(tags) : e[1][4] = "local"
    /\ \E e \in Range(tags) : e[1][4] = "global"
    /\ Len(SplitLines(out)) >= 3

\* C9: no record or macro tag of the table has an empty name.
C9_NoEmptyRecmacName ==
    \A e \in Range(tags) : e[1][3] \in { "r", "d" } => e[1][1] # ""

\* C10: two add_tag calls with the same key carry the same address, and
\* the table holds every key with the address of each of its calls.
C10_AddressByKey ==
    /\ \A i, j \in 1..Len(calls) :
         calls[i][1] = calls[j][1] => calls[i][2] = calls[j][2]
    /\ \A c \in Range(calls) : c \in Range(tags)

\* A function, record or macro key was passed to add_tag twice.
C10_Witness ==
    \E i, j \in 1..Len(calls) :
        /\ i < j
        /\ calls[i][1] = calls[j][1]
        /\ calls[i][1][3] \in { "f", "r", "d" }

====
